---- MODULE Spec2Model ----
(***************************************************************************)
(* Model of marker_visualization.cpp: MarkerVisualization (a set of        *)
(* markers reconciled into one planning frame, materialized lazily) and    *)
(* MarkerVisualizationProperty (the host that attaches the sets' namespace *)
(* scene nodes and keeps one visibility property per namespace).           *)
(***************************************************************************)
EXTENDS Integers, Sequences, FiniteSets, TLC

-----------------------------------------------------------------------------
(* Bounds of the model *)

\* longest marker vector handed to the constructor
MaxMarkers == 2
\* number of MarkerVisualization objects of the host-level specification
MaxSets == 2
\* longest hosted_markers_ list
MaxHosted == 2

-----------------------------------------------------------------------------
(* Values *)

\* visualization_msgs::Marker type tags used by the inputs
CUBE == 1
\* a tag outside the switch of createMarker
UNKNOWN_TYPE == 12

Types == {CUBE, UNKNOWN_TYPE}
NS == {"a", "b"}
\* iteration order of the std::map keyed by namespace name
NSOrder == <<"a", "b">>
Frames == {"map", "base", "odom"}

\* A pose / affine transform: x |-> rot * x + pos over Z_3, rot in {1,-1}.
\* Composition does not commute, as for Eigen::Affine3d.
Affine == [rot : {1, -1}, pos : 0 .. 2]

\* Eigen: (tm * pose)(x) = tm(pose(x))
Compose(tm, pose) ==
    [rot |-> tm.rot * pose.rot, pos |-> (tm.rot * pose.pos + tm.pos) % 3]

\* geometry_msgs::Pose: position and orientation, kept as separate fields
PoseMsgs == [position : 0 .. 2, orientation : {1, -1}]
poseMsgToEigen(m) == [rot |-> m.orientation, pos |-> m.position]
poseEigenToMsg(e) == [position |-> e.pos, orientation |-> e.rot]

\* poses used by the input markers
InputPoses == {[position |-> 1, orientation |-> 1], [position |-> 2, orientation |-> -1]}

\* planning_scene::PlanningScene as seen by toPlanningFrame
FrameTransform(frame) ==
    CASE frame = "map"  -> [rot |-> 1, pos |-> 2]
      [] frame = "base" -> [rot |-> -1, pos |-> 1]
      [] OTHER          -> [rot |-> -1, pos |-> 0]
Scenes == [planning_frame : {"map", "base"}, known : {{"map", "base"}, {"base"}}]
getPlanningFrame(scene) == scene.planning_frame
knowsFrameTransform(scene, frame) == frame \in scene.known
getFrameTransform(scene, frame) == FrameTransform(frame)

\* visualization_msgs::Marker; Batches sets id to the position in the input vector
Marker(id, ns, type, frame, pose) ==
    [id |-> id, ns |-> ns, type |-> type, frame_id |-> frame, pose |-> pose]
RawMarkers ==
    {Marker(0, n, t, f, p) : n \in NS, t \in Types, f \in Frames, p \in InputPoses}

\* a smaller pool for the specifications that go on after construction: both
\* namespaces, a known and an unknown type, a marker in the planning frame,
\* in a known frame and in an unknown frame
SetMarkers ==
    {Marker(0, "a", CUBE, "map", [position |-> 1, orientation |-> 1]),
     Marker(0, "a", UNKNOWN_TYPE, "map", [position |-> 1, orientation |-> 1]),
     Marker(0, "b", CUBE, "base", [position |-> 2, orientation |-> -1]),
     Marker(0, "b", CUBE, "odom", [position |-> 1, orientation |-> 1])}

\* every vector of at most MaxMarkers markers over the pool
Batches(pool) ==
    UNION {{[i \in 1 .. n |-> [b[i] EXCEPT !.id = i]] : b \in [1 .. n -> pool]} :
              n \in 0 .. MaxMarkers}

SetIds == 1 .. MaxSets

\* scene nodes: the nodes of the host and one possible node per set and namespace
NullNode == <<>>
marker_scene_node_ == <<0, "marker_scene_node_">>
parent_scene_node_ == <<0, "parent_scene_node_">>
other_node == <<0, "other_node">>
GroupNode(s, ns) == <<s, ns>>
GroupNodes == {GroupNode(s, n) : s \in SetIds, n \in NS}
ParentNodes == {marker_scene_node_, parent_scene_node_, other_node}

\* outcomes of tf's lookupTransform(fixed frame, planning frame): one of the
\* transforms tf may hold at the time of the call, or the exception
TfValues == {"tf1", "tf2"}
TfOutcomes == TfValues \cup {"throw"}

\* MarkerData.second: a null pointer, or the rviz::MarkerBase built by
\* createMarker; tm is the transform the marker was last aligned with
NullHandle == [class |-> "nullptr", node |-> NullNode, nSetMessage |-> 0, nAlign |-> 0,
               tm |-> "none"]

-----------------------------------------------------------------------------
VARIABLES
    constructed,       \* which MarkerVisualization objects exist
    input,             \* the marker vector each was constructed from
    end_scene,         \* the scene each was constructed with
    markers_,          \* MarkerVisualization::markers_
    namespaces_,       \* MarkerVisualization::namespaces_ (ns -> scene node)
    mParent,           \* Ogre::Node::mParent of every node
    mChildren,         \* Ogre::Node::mChildren of the nodes that take children
    hosted_markers_,   \* MarkerVisualizationProperty::hosted_markers_
    prop_namespaces_,  \* MarkerVisualizationProperty::namespaces_ (ns -> BoolProperty value)
    enabled,           \* value of the host's own BoolProperty
    warn_once,         \* the static flag of ROS_WARN_ONCE in toPlanningFrame
    warn_log,          \* the warnings printed so far
    thrown,            \* exception that left the last call ("none" if it returned)
    crashed,           \* "no", or how the process ended
    last               \* the last call and its arguments

setVars == <<constructed, input, end_scene, markers_, namespaces_>>
graphVars == <<mParent, mChildren>>
hostVars == <<hosted_markers_, prop_namespaces_, enabled>>
logVars == <<warn_once, warn_log>>
vars == <<setVars, graphVars, hostVars, logVars, thrown, crashed, last>>

-----------------------------------------------------------------------------
(* MarkerVisualization: construction *)

\* toPlanningFrame without the rewrite of header.frame_id
toPlanningFrame_KeepsFrame(marker, scene) ==
    IF marker.frame_id = getPlanningFrame(scene)
    THEN [ret |-> TRUE, marker |-> marker, warn |-> FALSE]
    ELSE IF ~knowsFrameTransform(scene, marker.frame_id)
    THEN [ret |-> FALSE, marker |-> marker, warn |-> TRUE]
    ELSE [ret |-> TRUE,
          marker |-> [marker EXCEPT !.pose = poseEigenToMsg(
                         Compose(getFrameTransform(scene, marker.frame_id),
                                 poseMsgToEigen(marker.pose)))],
          warn |-> FALSE]

\* toPlanningFrame with the product taken as pose * tm
toPlanningFrame_PoseFirst(marker, scene) ==
    IF marker.frame_id = getPlanningFrame(scene)
    THEN [ret |-> TRUE, marker |-> marker, warn |-> FALSE]
    ELSE IF ~knowsFrameTransform(scene, marker.frame_id)
    THEN [ret |-> FALSE, marker |-> marker, warn |-> TRUE]
    ELSE [ret |-> TRUE,
          marker |-> [marker EXCEPT !.pose = poseEigenToMsg(
                         Compose(poseMsgToEigen(marker.pose),
                                 getFrameTransform(scene, marker.frame_id))),
                                    !.frame_id = getPlanningFrame(scene)],
          warn |-> FALSE]

\* toPlanningFrame that asks knowsFrameTransform before comparing with the
\* planning frame
toPlanningFrame_KnownFirst(marker, scene) ==
    IF ~knowsFrameTransform(scene, marker.frame_id)
    THEN [ret |-> FALSE, marker |-> marker, warn |-> TRUE]
    ELSE IF marker.frame_id = getPlanningFrame(scene)
    THEN [ret |-> TRUE, marker |-> marker, warn |-> FALSE]
    ELSE [ret |-> TRUE,
          marker |-> [marker EXCEPT !.pose = poseEigenToMsg(
                         Compose(getFrameTransform(scene, marker.frame_id),
                                 poseMsgToEigen(marker.pose))),
                                    !.frame_id = getPlanningFrame(scene)],
          warn |-> FALSE]

\* toPlanningFrame without the early return for the planning frame: every
\* frame goes through knowsFrameTransform and the composition
toPlanningFrame_NoShortcut(marker, scene) ==
    IF ~knowsFrameTransform(scene, marker.frame_id)
    THEN [ret |-> FALSE, marker |-> marker, warn |-> TRUE]
    ELSE [ret |-> TRUE,
          marker |-> [marker EXCEPT !.pose = poseEigenToMsg(
                         Compose(getFrameTransform(scene, marker.frame_id),
                                 poseMsgToEigen(marker.pose))),
                                    !.frame_id = getPlanningFrame(scene)],
          warn |-> FALSE]

\* toPlanningFrame: the marker as rewritten, the return value, whether the
\* unknown-frame branch (the ROS_WARN_ONCE site) was taken
toPlanningFrame(marker, scene) ==
    IF marker.frame_id = getPlanningFrame(scene)
    THEN [ret |-> TRUE, marker |-> marker, warn |-> FALSE]
    ELSE IF ~knowsFrameTransform(scene, marker.frame_id)
    THEN [ret |-> FALSE, marker |-> marker, warn |-> TRUE]
    ELSE LET pose == poseMsgToEigen(marker.pose)
             tm == getFrameTransform(scene, marker.frame_id)
         IN [ret |-> TRUE,
             marker |-> [marker EXCEPT !.pose = poseEigenToMsg(Compose(tm, pose)),
                                       !.frame_id = getPlanningFrame(scene)],
             warn |-> FALSE]

\* std::map::insert: keeps the existing entry of a key
MapInsert(map, key, value) ==
    IF key \in DOMAIN map THEN map ELSE map @@ (key :> value)

EmptyMap == [k \in {} |-> NullNode]

\* a warning printed once for each distinct frame
WarnOnce_PerFrame(acc, marker) ==
    IF \E k \in 1 .. Len(acc.log) : acc.log[k][1] = marker.frame_id THEN acc
    ELSE [acc EXCEPT !.once = TRUE,
                     !.log = Append(@, <<marker.frame_id, marker.ns>>)]

\* ROS_WARN_ONCE: prints at the first execution of the call site only
WarnOnce(acc, marker) ==
    IF acc.once THEN acc
    ELSE [acc EXCEPT !.once = TRUE,
                     !.log = Append(@, <<marker.frame_id, marker.ns>>)]

\* a constructor that builds the rviz marker at once instead of postponing it
CtorStep_EagerMarker(acc, marker, scene) ==
    LET r == toPlanningFrame(marker, scene) IN
    IF ~r.ret
    THEN IF r.warn THEN WarnOnce(acc, marker) ELSE acc
    ELSE [acc EXCEPT !.markers = Append(@, [first |-> r.marker,
                                           second |-> [NullHandle EXCEPT !.class = "MarkerBase",
                                                                         !.nSetMessage = 1],
                                           made |-> 1]),
                     !.namespaces = MapInsert(@, marker.ns, NullNode)]

\* a constructor that remembers the namespace before it asks toPlanningFrame
CtorStep_NamespaceFirst(acc, marker, scene) ==
    LET r == toPlanningFrame(marker, scene)
        named == [acc EXCEPT !.namespaces = MapInsert(@, marker.ns, NullNode)]
    IN IF ~r.ret
       THEN IF r.warn THEN WarnOnce(named, marker) ELSE named
       ELSE [named EXCEPT !.markers = Append(@, [first |-> r.marker, second |-> NullHandle,
                                                 made |-> 0])]

\* one iteration of the constructor's loop over the input markers
CtorStep(acc, marker, scene) ==
    LET r == toPlanningFrame(marker, scene) IN
    IF ~r.ret
    THEN IF r.warn THEN WarnOnce(acc, marker) ELSE acc
    ELSE [acc EXCEPT !.markers = Append(@, [first |-> r.marker, second |-> NullHandle, made |-> 0]),
                     !.namespaces = MapInsert(@, marker.ns, NullNode)]

RECURSIVE CtorLoop(_, _, _, _)
CtorLoop(acc, markers, scene, i) ==
    IF i > Len(markers) THEN acc
    ELSE CtorLoop(CtorStep(acc, markers[i], scene), markers, scene, i + 1)

\* MarkerVisualization::MarkerVisualization(markers, end_scene)
Construct(s, markers, scene) ==
    /\ crashed = "no"
    /\ ~constructed[s]
    /\ LET r == CtorLoop([markers |-> <<>>, namespaces |-> EmptyMap,
                          once |-> warn_once, log |-> warn_log], markers, scene, 1)
       IN /\ markers_' = [markers_ EXCEPT ![s] = r.markers]
          /\ namespaces_' = [namespaces_ EXCEPT ![s] = r.namespaces]
          /\ warn_once' = r.once
          /\ warn_log' = r.log
    /\ constructed' = [constructed EXCEPT ![s] = TRUE]
    /\ input' = [input EXCEPT ![s] = markers]
    /\ end_scene' = [end_scene EXCEPT ![s] = scene]
    /\ thrown' = "none"
    /\ last' = [op |-> "MarkerVisualization", set |-> s, ns |-> "", visible |-> FALSE,
                parent |-> NullNode, lookups |-> 0, errors |-> 0, again |-> FALSE]
    /\ UNCHANGED <<graphVars, hostVars, crashed>>

-----------------------------------------------------------------------------
(* Scene graph primitives and visibility *)

\* Ogre::Node::addChild: throws when the child already has a parent
addChild(g, parent, child) ==
    IF g.mParent[child] # NullNode
    THEN [g EXCEPT !.thrown = "Ogre::Exception"]
    ELSE [g EXCEPT !.mChildren[parent] = @ \cup {child},
                   !.mParent[child] = parent]

\* Ogre::Node::removeChild
removeChild(g, parent, child) ==
    IF child \in g.mChildren[parent]
    THEN [g EXCEPT !.mChildren[parent] = @ \ {child},
                   !.mParent[child] = NullNode]
    ELSE g

\* Ogre::Node::removeAllChildren
removeAllChildren(g, parent) ==
    [g EXCEPT !.mChildren[parent] = {},
              !.mParent = [n \in DOMAIN @ |-> IF n \in g.mChildren[parent] THEN NullNode ELSE @[n]]]

\* setVisibility without the comparison of the node's parent
setVisibility_NoParentCheck(g, node, parent, visible) ==
    IF visible
    THEN addChild(g, parent, node)
    ELSE IF g.mParent[node] # NullNode
    THEN removeChild(g, g.mParent[node], node)
    ELSE g

\* setVisibility(node, parent, visible), node not null
setVisibility(g, node, parent, visible) ==
    IF visible /\ g.mParent[node] # parent
    THEN addChild(g, parent, node)
    ELSE IF ~visible /\ g.mParent[node] # NullNode
    THEN removeChild(g, g.mParent[node], node)
    ELSE g

\* MarkerVisualization::setVisible on the namespace map nsm of one set.
\* A key that maps to a null node is passed to setVisibility, which reads
\* node->getParent() through the null pointer: undefined behaviour, ub
\* names the outcome ("segv": the process dies, "ignored": the read goes
\* unnoticed and nothing is changed).
setVisible(g, nsm, ns, parent, visible, ub) ==
    IF ns \notin DOMAIN nsm
    THEN g
    ELSE IF nsm[ns] = NullNode
    THEN [g EXCEPT !.ub = ub]
    ELSE setVisibility(g, nsm[ns], parent, visible)

Graph == [mParent |-> mParent, mChildren |-> mChildren, thrown |-> "none", ub |-> "no"]

-----------------------------------------------------------------------------
(* MarkerVisualization: lazy creation of the rviz markers *)

\* createMarker: the class of the marker built for a type tag
createMarker(marker_type) ==
    CASE marker_type \in {1, 3, 2} -> "ShapeMarker"
      [] marker_type = 0 -> "ArrowMarker"
      [] marker_type = 4 -> "LineStripMarker"
      [] marker_type = 5 -> "LineListMarker"
      [] marker_type \in {7, 6, 8} -> "PointsMarker"
      [] marker_type = 9 -> "TextViewFacingMarker"
      [] marker_type = 10 -> "MeshResourceMarker"
      [] marker_type = 11 -> "TriangleListMarker"
      [] OTHER -> "nullptr"

\* the loop without its `continue`
SkipEntry_Never(data) == FALSE

\* `if (data.second) continue;`
SkipEntry(data) == data.second # NullHandle

\* the alignment with a lookup for every marker instead of the first only
AlignStep_LookupEachTime(acc, i, node, class, tf) ==
    LET data == acc.markers[i]
        fresh == [class |-> class, node |-> node, nSetMessage |-> 1, nAlign |-> 0,
                  tm |-> "none"]
        set == [acc EXCEPT !.markers[i].second = fresh, !.markers[i].made = @ + 1]
        looked == [set EXCEPT !.planning_frame = data.first.frame_id,
                              !.lookups = @ + 1]
    IN IF tf = "throw"
       THEN [looked EXCEPT !.thrown = "tf::TransformException"]
       ELSE [looked EXCEPT !.quat_pos = tf,
                           !.markers[i].second.nAlign = @ + 1,
                           !.markers[i].second.tm = tf]

\* the part of an iteration after createMarker returned a marker:
\* setMessage, the transform lookup (first time only), the alignment
AlignStep(acc, i, node, class, tf) ==
    LET data == acc.markers[i]
        fresh == [class |-> class, node |-> node, nSetMessage |-> 1, nAlign |-> 0,
                  tm |-> "none"]
        set == [acc EXCEPT !.markers[i].second = fresh, !.markers[i].made = @ + 1]
        aligned(a) == [a EXCEPT !.markers[i].second.nAlign = @ + 1,
                                !.markers[i].second.tm = a.quat_pos]
    IN IF acc.planning_frame = ""
       THEN LET looked == [set EXCEPT !.planning_frame = data.first.frame_id,
                                      !.lookups = @ + 1]
            IN IF tf = "throw"
               THEN [looked EXCEPT !.thrown = "tf::TransformException"]
               ELSE aligned([looked EXCEPT !.quat_pos = tf])
       ELSE IF data.first.frame_id = acc.planning_frame
       THEN aligned(set)
       ELSE [set EXCEPT !.assert = TRUE]

\* the loop without `if (data.second)` after createMarker
CreateStep_NoNullCheck(acc, i, s, tf) ==
    LET data == acc.markers[i]
        ns == data.first.ns
    IN IF SkipEntry(data) THEN acc
       ELSE IF ns \notin DOMAIN acc.namespaces THEN [acc EXCEPT !.assert = TRUE]
       ELSE LET node == IF acc.namespaces[ns] = NullNode THEN GroupNode(s, ns)
                        ELSE acc.namespaces[ns]
                withNode == [acc EXCEPT !.namespaces[ns] = node]
                class == createMarker(data.first.type)
            IN AlignStep(withNode, i, node, class, tf)

\* the loop with a scene node that is created but not stored in namespaces_
CreateStep_ForgetsNode(acc, i, s, tf) ==
    LET data == acc.markers[i]
        ns == data.first.ns
    IN IF SkipEntry(data) THEN acc
       ELSE IF ns \notin DOMAIN acc.namespaces THEN [acc EXCEPT !.assert = TRUE]
       ELSE LET node == GroupNode(s, ns)
                class == createMarker(data.first.type)
            IN IF class = "nullptr"
               THEN [acc EXCEPT !.errors = @ + 1]
               ELSE AlignStep(acc, i, node, class, tf)

\* one iteration of the loop of createMarkers over markers_
CreateStep(acc, i, s, tf) ==
    LET data == acc.markers[i]
        ns == data.first.ns
    IN IF SkipEntry(data) THEN acc
       ELSE IF ns \notin DOMAIN acc.namespaces THEN [acc EXCEPT !.assert = TRUE]
       ELSE LET node == IF acc.namespaces[ns] = NullNode THEN GroupNode(s, ns)
                        ELSE acc.namespaces[ns]
                withNode == [acc EXCEPT !.namespaces[ns] = node]
                class == createMarker(data.first.type)
            IN IF class = "nullptr"
               THEN [withNode EXCEPT !.errors = @ + 1]
               ELSE AlignStep(withNode, i, node, class, tf)

RECURSIVE CreateLoop(_, _, _, _)
CreateLoop(acc, i, s, tf) ==
    IF i > Len(acc.markers) \/ acc.thrown # "none" \/ acc.assert THEN acc
    ELSE CreateLoop(CreateStep(acc, i, s, tf), i + 1, s, tf)

\* MarkerVisualization::createMarkers on the state (mk, nsm) of set s; tf is
\* what tf's lookupTransform does when called: the transform it returns, or
\* "throw". quat_pos are the locals quat and pos.
createMarkers(mk, nsm, s, tf) ==
    CreateLoop([markers |-> mk, namespaces |-> nsm, planning_frame |-> "",
                quat_pos |-> "none",
                lookups |-> 0, errors |-> 0, thrown |-> "none", assert |-> FALSE],
               1, s, tf)

\* the record kept in `last`: the call, the number of transform lookups and
\* of ROS_ERROR reports it made, whether it repeats the call before it
Call(op, s, ns, visible, parent, lookups) ==
    [op |-> op, set |-> s, ns |-> ns, visible |-> visible, parent |-> parent,
     lookups |-> lookups, errors |-> 0, again |-> FALSE]

\* a direct call of createMarkers(context, parent_scene_node) on set s
CreateMarkers(s, tf) ==
    /\ crashed = "no"
    /\ constructed[s]
    /\ LET r == createMarkers(markers_[s], namespaces_[s], s, tf)
       IN /\ markers_' = [markers_ EXCEPT ![s] = r.markers]
          /\ namespaces_' = [namespaces_ EXCEPT ![s] = r.namespaces]
          /\ thrown' = r.thrown
          /\ crashed' = IF r.assert THEN "assert" ELSE "no"
          /\ last' = [Call("createMarkers", s, "", FALSE, NullNode, r.lookups)
                         EXCEPT !.errors = r.errors]
    /\ UNCHANGED <<constructed, input, end_scene, graphVars, hostVars, logVars>>

\* a direct call of setVisible(ns, parent_scene_node, visible) on set s
SetVisible(s, ns, parent, visible, ub) ==
    /\ crashed = "no"
    /\ constructed[s]
    /\ LET g == setVisible(Graph, namespaces_[s], ns, parent, visible, ub)
       IN /\ mParent' = g.mParent
          /\ mChildren' = g.mChildren
          /\ thrown' = g.thrown
          /\ crashed' = IF g.ub = "segv" THEN "segv" ELSE "no"
    /\ last' = [Call("setVisible", s, ns, visible, parent, 0)
                   EXCEPT !.again = (last = Call("setVisible", s, ns, visible, parent, 0)
                                     \/ last = [Call("setVisible", s, ns, visible, parent, 0)
                                                   EXCEPT !.again = TRUE])]
    /\ UNCHANGED <<setVars, hostVars, logVars>>

\* the loop of the destructor over namespaces_: destroySceneNode takes the
\* node out of its parent and frees it
RECURSIVE DestroyLoop(_, _, _)
DestroyLoop(g, nsm, i) ==
    IF i > Len(NSOrder) THEN g
    ELSE IF NSOrder[i] \in DOMAIN nsm /\ nsm[NSOrder[i]] # NullNode
              /\ g.mParent[nsm[NSOrder[i]]] # NullNode
    THEN DestroyLoop(removeChild(g, g.mParent[nsm[NSOrder[i]]], nsm[NSOrder[i]]), nsm, i + 1)
    ELSE DestroyLoop(g, nsm, i + 1)

\* MarkerVisualization::~MarkerVisualization: runs when the last owner lets
\* go of the set, so never while the host holds it
Destroy(s) ==
    /\ crashed = "no"
    /\ constructed[s]
    /\ \A i \in 1 .. Len(hosted_markers_) : hosted_markers_[i] # s
    /\ LET g == DestroyLoop(Graph, namespaces_[s], 1)
       IN /\ mParent' = g.mParent
          /\ mChildren' = g.mChildren
    /\ constructed' = [constructed EXCEPT ![s] = FALSE]
    /\ input' = [input EXCEPT ![s] = <<>>]
    /\ end_scene' = [end_scene EXCEPT ![s] = [planning_frame |-> "map", known |-> {"map", "base"}]]
    /\ markers_' = [markers_ EXCEPT ![s] = <<>>]
    /\ namespaces_' = [namespaces_ EXCEPT ![s] = EmptyMap]
    /\ thrown' = "none"
    /\ last' = Call("~MarkerVisualization", s, "", FALSE, NullNode, 0)
    /\ UNCHANGED <<hostVars, logVars, crashed>>

-----------------------------------------------------------------------------
(* MarkerVisualizationProperty: the host *)

\* std::map::insert of (ns, nullptr), then the BoolProperty created with value
\* true when the entry holds no property yet
EnsureProperty(props, ns) ==
    IF ns \in DOMAIN props THEN props ELSE props @@ (ns :> TRUE)

\* the attachment done whatever the property says
AttachByProperty_Always(g, props, ns, node) ==
    addChild(g, marker_scene_node_, node)

\* `if (ns_it->second->getBool()) marker_scene_node_->addChild(pair.second);`
AttachByProperty(g, props, ns, node) ==
    IF props[ns] THEN addChild(g, marker_scene_node_, node) ELSE g

\* one iteration of the loop of addMarkers over markers->namespaces()
AddStep(acc, ns, s, tf) ==
    LET props == EnsureProperty(acc.props, ns)
        withProp == [acc EXCEPT !.props = props]
        r == createMarkers(acc.markers, acc.namespaces, s, tf)
        created == IF acc.namespaces[ns] = NullNode
                   THEN [withProp EXCEPT !.markers = r.markers,
                                         !.namespaces = r.namespaces,
                                         !.lookups = @ + r.lookups,
                                         !.g.thrown = r.thrown,
                                         !.assert = r.assert]
                   ELSE withProp
    IN IF created.g.thrown # "none" \/ created.assert THEN created
       ELSE IF created.namespaces[ns] = NullNode THEN [created EXCEPT !.assert = TRUE]
       ELSE [created EXCEPT !.g = AttachByProperty(@, props, ns, created.namespaces[ns])]

RECURSIVE AddLoop(_, _, _, _)
AddLoop(acc, i, s, tf) ==
    IF i > Len(NSOrder) \/ acc.g.thrown # "none" \/ acc.assert THEN acc
    ELSE IF NSOrder[i] \notin DOMAIN acc.namespaces THEN AddLoop(acc, i + 1, s, tf)
    ELSE AddLoop(AddStep(acc, NSOrder[i], s, tf), i + 1, s, tf)

\* MarkerVisualizationProperty::addMarkers(markers), markers not null
AddMarkers(s, tf) ==
    /\ crashed = "no"
    /\ constructed[s]
    /\ Len(hosted_markers_) < MaxHosted
    /\ hosted_markers_' = Append(hosted_markers_, s)
    /\ LET r == AddLoop([props |-> prop_namespaces_, markers |-> markers_[s],
                         namespaces |-> namespaces_[s], g |-> Graph, lookups |-> 0,
                         assert |-> FALSE], 1, s, tf)
       IN /\ prop_namespaces_' = r.props
          /\ markers_' = [markers_ EXCEPT ![s] = r.markers]
          /\ namespaces_' = [namespaces_ EXCEPT ![s] = r.namespaces]
          /\ mParent' = r.g.mParent
          /\ mChildren' = r.g.mChildren
          /\ thrown' = r.g.thrown
          /\ crashed' = IF r.assert THEN "assert" ELSE "no"
          /\ last' = Call("addMarkers", s, "", FALSE, NullNode, 0)
    /\ UNCHANGED <<constructed, input, end_scene, enabled, logVars>>

\* addMarkers(nullptr): `if (!markers) return;`
AddNullMarkers ==
    /\ crashed = "no"
    /\ thrown' = "none"
    /\ last' = Call("addMarkers", 0, "", FALSE, NullNode, 0)
    /\ UNCHANGED <<setVars, graphVars, hostVars, logVars, crashed>>

\* the loop of onNSEnableChanged over hosted_markers_
RECURSIVE ToggleLoop(_, _, _, _, _)
ToggleLoop(g, i, ns, visible, ub) ==
    IF i > Len(hosted_markers_) \/ g.thrown # "none" \/ g.ub = "segv" THEN g
    ELSE ToggleLoop(setVisible(g, namespaces_[hosted_markers_[i]], ns, marker_scene_node_,
                               visible, ub),
                    i + 1, ns, visible, ub)

\* the user flips the BoolProperty of namespace ns: its value changes and the
\* changed() signal runs onNSEnableChanged
NSEnableChanged(ns, ub) ==
    /\ crashed = "no"
    /\ ns \in DOMAIN prop_namespaces_
    /\ LET visible == ~prop_namespaces_[ns]
           g == ToggleLoop(Graph, 1, ns, visible, ub)
       IN /\ prop_namespaces_' = [prop_namespaces_ EXCEPT ![ns] = visible]
          /\ mParent' = g.mParent
          /\ mChildren' = g.mChildren
          /\ thrown' = g.thrown
          /\ crashed' = IF g.ub = "segv" THEN "segv" ELSE "no"
          /\ last' = Call("onNSEnableChanged", 0, ns, FALSE, NullNode, 0)
    /\ UNCHANGED <<setVars, hosted_markers_, enabled, logVars>>

\* onEnableChanged that passes the value the property had before the change
EnableChanged_StaleValue ==
    /\ crashed = "no"
    /\ enabled' = ~enabled
    /\ LET g == setVisibility(Graph, marker_scene_node_, parent_scene_node_, enabled)
       IN /\ mParent' = g.mParent
          /\ mChildren' = g.mChildren
          /\ thrown' = g.thrown
    /\ last' = Call("onEnableChanged", 0, "", FALSE, NullNode, 0)
    /\ UNCHANGED <<setVars, hosted_markers_, prop_namespaces_, logVars, crashed>>

\* the user flips the host's own BoolProperty: onEnableChanged
EnableChanged ==
    /\ crashed = "no"
    /\ enabled' = ~enabled
    /\ LET g == setVisibility(Graph, marker_scene_node_, parent_scene_node_, ~enabled)
       IN /\ mParent' = g.mParent
          /\ mChildren' = g.mChildren
          /\ thrown' = g.thrown
    /\ last' = Call("onEnableChanged", 0, "", FALSE, NullNode, 0)
    /\ UNCHANGED <<setVars, hosted_markers_, prop_namespaces_, logVars, crashed>>

\* clearMarkers without removeAllChildren
ClearMarkers_NoDetach ==
    /\ crashed = "no"
    /\ hosted_markers_' = <<>>
    /\ thrown' = "none"
    /\ last' = Call("clearMarkers", 0, "", FALSE, NullNode, 0)
    /\ UNCHANGED <<setVars, graphVars, prop_namespaces_, enabled, logVars, crashed>>

\* clearMarkers that also drops the namespace properties
ClearMarkers_DropsProperties ==
    /\ crashed = "no"
    /\ LET g == removeAllChildren(Graph, marker_scene_node_)
       IN /\ mParent' = g.mParent
          /\ mChildren' = g.mChildren
    /\ hosted_markers_' = <<>>
    /\ prop_namespaces_' = EmptyMap
    /\ thrown' = "none"
    /\ last' = Call("clearMarkers", 0, "", FALSE, NullNode, 0)
    /\ UNCHANGED <<setVars, enabled, logVars, crashed>>

\* MarkerVisualizationProperty::clearMarkers. The sets stay alive: the
\* solutions they were built for hold them too.
ClearMarkers ==
    /\ crashed = "no"
    /\ LET g == removeAllChildren(Graph, marker_scene_node_)
       IN /\ mParent' = g.mParent
          /\ mChildren' = g.mChildren
    /\ hosted_markers_' = <<>>
    /\ thrown' = "none"
    /\ last' = Call("clearMarkers", 0, "", FALSE, NullNode, 0)
    /\ UNCHANGED <<setVars, prop_namespaces_, enabled, logVars, crashed>>

-----------------------------------------------------------------------------
(* Specifications *)

DefaultScene == [planning_frame |-> "map", known |-> {"map", "base"}]

\* the host after its constructor and onInitialize; no MarkerVisualization yet
Init ==
    /\ constructed = [s \in SetIds |-> FALSE]
    /\ input = [s \in SetIds |-> <<>>]
    /\ end_scene = [s \in SetIds |-> DefaultScene]
    /\ markers_ = [s \in SetIds |-> <<>>]
    /\ namespaces_ = [s \in SetIds |-> EmptyMap]
    /\ mParent = [n \in GroupNodes \cup {marker_scene_node_} |->
                    IF n = marker_scene_node_ THEN parent_scene_node_ ELSE NullNode]
    /\ mChildren = [n \in ParentNodes |->
                    IF n = parent_scene_node_ THEN {marker_scene_node_} ELSE {}]
    /\ hosted_markers_ = <<>>
    /\ prop_namespaces_ = EmptyMap
    /\ enabled = TRUE
    /\ warn_once = FALSE
    /\ warn_log = <<>>
    /\ thrown = "none"
    /\ crashed = "no"
    /\ last = Call("init", 0, "", FALSE, NullNode, 0)

\* The constructor alone, on every marker vector and scene of the bounds.
NextCtor ==
    /\ ~constructed[1]
    /\ \E markers \in Batches(RawMarkers), scene \in Scenes : Construct(1, markers, scene)

SpecCtor == Init /\ [][NextCtor]_vars

\* One MarkerVisualization used through its own interface: built, then
\* createMarkers and setVisible in any order, then destroyed, and the next
\* one built in its place.
NextSet ==
    \/ /\ ~constructed[1]
       /\ \E markers \in Batches(SetMarkers), scene \in Scenes : Construct(1, markers, scene)
    \/ \E tf \in TfOutcomes : CreateMarkers(1, tf)
    \/ \E ns \in NS, parent \in {marker_scene_node_, other_node}, visible \in BOOLEAN,
          ub \in {"segv", "ignored"} : SetVisible(1, ns, parent, visible, ub)
    \/ Destroy(1)

SpecSet == Init /\ [][NextSet]_vars

\* the host-level specification has one transform value
HostTf == {"tf1", "throw"}

\* markers of the host-level specification: frames and types play no part there
HostMarkers ==
    {Marker(0, n, CUBE, "map", [position |-> 1, orientation |-> 1]) : n \in NS}

\* The host with up to MaxSets MarkerVisualization objects, each built once
\* (in the order of their ids) and then handed to the host any number of times.
Next ==
    \/ \E s \in SetIds :
          /\ ~constructed[s]
          /\ \A t \in SetIds : t < s => constructed[t]
          /\ \E markers \in Batches(HostMarkers) : Construct(s, markers, DefaultScene)
    \/ \E s \in SetIds, tf \in HostTf : AddMarkers(s, tf)
    \/ AddNullMarkers
    \/ \E ns \in NS, ub \in {"segv", "ignored"} : NSEnableChanged(ns, ub)
    \/ EnableChanged
    \/ ClearMarkers

Spec == Init /\ [][Next]_vars

-----------------------------------------------------------------------------
(* Claims *)

Range(seq) == {seq[i] : i \in 1 .. Len(seq)}
Kept(marker, scene) ==
    marker.frame_id = scene.planning_frame \/ marker.frame_id \in scene.known
KnownType(type) == type \in {0, 1, 2, 3, 4, 5, 6, 7, 8, 9, 10, 11}
HasHandle(data) == data.second # NullHandle

\* C1: every stored marker of every MarkerVisualization carries the planning
\* frame of the scene it was built with, after construction and after any
\* createMarkers and setVisible calls, and no assertion of createMarkers fails.
C1_OnePlanningFrame ==
    /\ crashed # "assert"
    /\ \A s \in SetIds : \A i \in 1 .. Len(markers_[s]) :
          markers_[s][i].first.frame_id = end_scene[s].planning_frame

\* C1 witness: a set that kept a marker given in another frame, whose
\* createMarkers call went through the frame comparison for a second marker,
\* and on which setVisible was called afterwards.
C1_Witness ==
    /\ last.op = "setVisible"
    /\ crashed = "no"
    /\ \E i \in 1 .. Len(input[1]) : /\ input[1][i].frame_id # end_scene[1].planning_frame
                                     /\ Kept(input[1][i], end_scene[1])
    /\ Len(markers_[1]) = 2
    /\ \A i \in 1 .. 2 : markers_[1][i].second.nAlign = 1

\* C2: the stored markers are the input markers whose frame is the planning
\* frame or known to the scene, in input order, and their number is the
\* input's minus the number of markers in a frame that is neither.
C2_KeepsResolvable ==
    constructed[1] =>
        LET kept == SelectSeq(input[1], LAMBDA m : Kept(m, end_scene[1]))
            dropped == {i \in 1 .. Len(input[1]) : ~Kept(input[1][i], end_scene[1])}
        IN /\ Len(markers_[1]) = Len(kept)
           /\ \A i \in 1 .. Len(kept) :
                 /\ markers_[1][i].first.id = kept[i].id
                 /\ markers_[1][i].first.ns = kept[i].ns
                 /\ markers_[1][i].first.type = kept[i].type
           /\ Len(markers_[1]) = Len(input[1]) - Cardinality(dropped)

\* C2 witness: an input whose first marker is dropped and whose second is
\* kept although the scene knows no transform for its (planning) frame.
C2_Witness ==
    /\ constructed[1]
    /\ Len(input[1]) = 2
    /\ ~Kept(input[1][1], end_scene[1])
    /\ input[1][2].frame_id = end_scene[1].planning_frame
    /\ input[1][2].frame_id \notin end_scene[1].known
    /\ Len(markers_[1]) = 1

\* C10: a marker given in a known frame F other than the planning frame is
\* stored with the pose T(F) o pose and with the planning frame.
C10_ComposedPose ==
    constructed[1] =>
        \A i \in 1 .. Len(input[1]) :
            LET m == input[1][i]
                scene == end_scene[1]
            IN (m.frame_id # scene.planning_frame /\ m.frame_id \in scene.known) =>
                  \E j \in 1 .. Len(markers_[1]) :
                     /\ markers_[1][j].first.id = m.id
                     /\ markers_[1][j].first.frame_id = scene.planning_frame
                     /\ LET t == FrameTransform(m.frame_id)
                            stored == markers_[1][j].first.pose
                        IN /\ stored.orientation = t.rot * m.pose.orientation
                           /\ stored.position = (t.rot * m.pose.position + t.pos) % 3

\* C10 witness: a stored marker that came in a known non-planning frame and
\* whose pose was changed by the transform.
C10_Witness ==
    /\ constructed[1]
    /\ \E i \in 1 .. Len(input[1]), j \in 1 .. Len(markers_[1]) :
          /\ input[1][i].frame_id # end_scene[1].planning_frame
          /\ input[1][i].frame_id \in end_scene[1].known
          /\ markers_[1][j].first.id = input[1][i].id
          /\ markers_[1][j].first.pose # input[1][i].pose

Attached(node) ==
    /\ node # NullNode
    /\ mParent[node] = marker_scene_node_
    /\ node \in mChildren[marker_scene_node_]

\* C3: when addMarkers(s) returns, s is hosted, each namespace of s has a
\* property (value true if new, its old value otherwise) and a scene node,
\* and the node is a child of marker_scene_node_ exactly when the property
\* is true.
C3_AddMarkersAttachesByProperty ==
    [][\A s \in SetIds :
          ((\E tf \in HostTf : AddMarkers(s, tf)) /\ thrown' = "none" /\ crashed' = "no") =>
             /\ s \in Range(hosted_markers_')
             /\ \A ns \in DOMAIN namespaces_'[s] :
                   /\ ns \in DOMAIN prop_namespaces_'
                   /\ prop_namespaces_'[ns] =
                         (IF ns \in DOMAIN prop_namespaces_ THEN prop_namespaces_[ns] ELSE TRUE)
                   /\ namespaces_'[s][ns] # NullNode
                   /\ (mParent'[namespaces_'[s][ns]] = marker_scene_node_) <=> prop_namespaces_'[ns]
                   /\ (namespaces_'[s][ns] \in mChildren'[marker_scene_node_])
                         <=> prop_namespaces_'[ns]]_vars

\* C3 witness: addMarkers has returned for a set with two namespaces, one
\* whose property had been switched off before (node left detached) and one
\* whose property is true (node attached).
C3_Witness ==
    /\ last.op = "addMarkers"
    /\ thrown = "none"
    /\ crashed = "no"
    /\ \E s \in SetIds :
          /\ last.set = s
          /\ s \in Range(hosted_markers_)
          /\ DOMAIN namespaces_[s] = {"a", "b"}
          /\ DOMAIN prop_namespaces_ = {"a", "b"}
          /\ ~prop_namespaces_["a"]
          /\ prop_namespaces_["b"]
          /\ namespaces_[s]["a"] # NullNode
          /\ ~Attached(namespaces_[s]["a"])
          /\ Attached(namespaces_[s]["b"])

\* C4: after the property of namespace ns changed to v, the node of ns of
\* every hosted set that has ns is a child of marker_scene_node_ iff v.
C4_ToggleReachesEveryHostedSet ==
    last.op = "onNSEnableChanged" =>
        /\ crashed = "no"
        /\ \A s \in Range(hosted_markers_) :
              last.ns \in DOMAIN namespaces_[s] =>
                 (Attached(namespaces_[s][last.ns]) <=> prop_namespaces_[last.ns])

\* C5: after clearMarkers there is no hosted set and marker_scene_node_ has
\* no child.
C5_ClearMarkersEmptiesHost ==
    last.op = "clearMarkers" =>
        /\ hosted_markers_ = <<>>
        /\ mChildren[marker_scene_node_] = {}
        /\ \A n \in GroupNodes : mParent[n] # marker_scene_node_

\* C5 witness: clearMarkers has run on a host that has a property switched
\* on and one switched off, with both sets materialized.
C5_Witness ==
    /\ last.op = "clearMarkers"
    /\ DOMAIN prop_namespaces_ = {"a", "b"}
    /\ prop_namespaces_["a"]
    /\ ~prop_namespaces_["b"]
    /\ \A s \in SetIds : \E ns \in DOMAIN namespaces_[s] : namespaces_[s][ns] # NullNode

\* C9 as claimed: clearMarkers also releases every namespace property.
C9_ClearMarkersReleasesProperties ==
    last.op = "clearMarkers" => DOMAIN prop_namespaces_ = {}

\* C9 as amended: clearMarkers keeps every namespace property with its
\* value, and addMarkers keeps the value of a property that exists, so a
\* namespace met again after clearMarkers is shown or hidden as before.
C9_PropertiesSurviveClear ==
    [][(ClearMarkers \/ \E s \in SetIds, tf \in HostTf : AddMarkers(s, tf)) =>
          \A ns \in DOMAIN prop_namespaces_ :
             /\ ns \in DOMAIN prop_namespaces_'
             /\ prop_namespaces_'[ns] = prop_namespaces_[ns]]_vars

\* C9 witness: the first addMarkers since a clearMarkers has returned for a
\* set of a namespace whose property is still off, its node left detached.
C9_Witness ==
    /\ last.op = "addMarkers"
    /\ thrown = "none"
    /\ Len(hosted_markers_) = 1
    /\ \E ns \in DOMAIN namespaces_[hosted_markers_[1]] :
          /\ ns \in DOMAIN prop_namespaces_
          /\ ~prop_namespaces_[ns]
          /\ namespaces_[hosted_markers_[1]][ns] # NullNode
          /\ ~Attached(namespaces_[hosted_markers_[1]][ns])

NoNode(s, ns) == ns \notin DOMAIN namespaces_[s] \/ namespaces_[s][ns] = NullNode

\* C6: setVisible(ns, parent, visible) changes nothing and does no harm
\* whenever the set has no scene node for ns, be it that ns is no namespace
\* of the set or that the namespace has not been materialized yet.
C6_SetVisibleNoOpWithoutNode ==
    [][\A ns \in NS :
          (NoNode(1, ns) /\ \E parent \in ParentNodes, visible \in BOOLEAN, ub \in {"segv", "ignored"} :
                               SetVisible(1, ns, parent, visible, ub)) =>
             /\ UNCHANGED graphVars
             /\ crashed' = "no"]_vars

\* C7: a createMarkers call leaves every entry that already has a handle as
\* it is (no new handle, no setMessage, no alignment), and no entry ever
\* gets a second handle.
C7_CreateMarkersSkipsMaterialized ==
    [][(\E tf \in TfOutcomes : CreateMarkers(1, tf)) =>
          \A i \in 1 .. Len(markers_[1]) :
             /\ HasHandle(markers_[1][i]) => markers_'[1][i] = markers_[1][i]
             /\ markers_'[1][i].made <= 1
             /\ markers_'[1][i].second.nSetMessage <= 1
             /\ markers_'[1][i].second.nAlign <= 1]_vars

\* C7 witness: a createMarkers call that found both entries materialized
\* and aligned by an earlier call, and so looked up no transform.
C7_Witness ==
    /\ last.op = "createMarkers"
    /\ last.lookups = 0
    /\ thrown = "none"
    /\ Len(markers_[1]) = 2
    /\ \A i \in 1 .. 2 : markers_[1][i].made = 1 /\ markers_[1][i].second.nAlign = 1

\* C8: once a createMarkers call has looked up the transform and returned,
\* every marker of a known type has a handle that was aligned, also when an
\* earlier call ended in a failed lookup.
C8_LookupFailureRecoverable ==
    (last.op = "createMarkers" /\ last.lookups = 1 /\ thrown = "none" /\ crashed = "no") =>
        \A i \in 1 .. Len(markers_[1]) :
            KnownType(markers_[1][i].first.type) =>
               /\ HasHandle(markers_[1][i])
               /\ markers_[1][i].second.nAlign = 1


\* C11: a marker whose frame is the planning frame is stored as it was given,
\* pose and frame untouched, whether or not the scene knows a transform for
\* that frame: the stored markers of the planning frame are the input markers
\* of the planning frame, in input order.
C11_PlanningFrameUntouched ==
    constructed[1] =>
        LET planning(m) == m.frame_id = end_scene[1].planning_frame
            given == SelectSeq(input[1], planning)
            stored == SelectSeq(markers_[1], LAMBDA data :
                         \E i \in 1 .. Len(input[1]) :
                            planning(input[1][i]) /\ input[1][i].id = data.first.id)
        IN /\ Len(stored) = Len(given)
           /\ \A i \in 1 .. Len(given) : stored[i].first = given[i]

\* C11 witness: a marker with a non-trivial pose in the planning frame, for
\* which the scene knows no transform, stored next to a marker that was
\* rewritten from another frame.
C11_Witness ==
    /\ constructed[1]
    /\ end_scene[1].planning_frame \notin end_scene[1].known
    /\ Len(input[1]) = 2
    /\ Len(markers_[1]) = 2
    /\ input[1][1].frame_id # end_scene[1].planning_frame
    /\ input[1][2].frame_id = end_scene[1].planning_frame
    /\ input[1][2].pose.position # 0
    /\ markers_[1][2].first = input[1][2]

\* set s owns no rviz marker and no scene node
NoRenderObject(s) ==
    /\ \A i \in 1 .. Len(markers_[s]) : markers_[s][i].second = NullHandle /\ markers_[s][i].made = 0
    /\ \A ns \in DOMAIN namespaces_[s] : namespaces_[s][ns] = NullNode
    /\ \A ns \in NS : mParent[GroupNode(s, ns)] = NullNode

\* C12: the constructor creates no rviz marker and no scene node, and none
\* appears before the first createMarkers call: a set just built owns none,
\* and a step that is not a createMarkers call leaves a set that owns none
\* owning none.
C12_NothingBeforeCreateMarkers ==
    [][/\ (~constructed[1] /\ constructed'[1]) => NoRenderObject(1)'
       /\ (constructed[1] /\ constructed'[1] /\ NoRenderObject(1)
             /\ ~(\E tf \in TfOutcomes : CreateMarkers(1, tf))) => NoRenderObject(1)']_vars

\* C12 witness: a set of two stored markers in two namespaces on which
\* setVisible was called for one of its namespaces, before any createMarkers.
C12_Witness ==
    /\ constructed[1]
    /\ crashed = "no"
    /\ last.op = "setVisible"
    /\ last.ns \in DOMAIN namespaces_[1]
    /\ Len(markers_[1]) = 2
    /\ DOMAIN namespaces_[1] = NS
    /\ NoRenderObject(1)

\* C13: a change of the host's own toggle changes no namespace toggle, not
\* the hosted sets, no set, and neither the parent of any grouping node nor
\* the children of the attachment point; it raises nothing, and afterwards
\* the attachment point is a child of its parent exactly when the toggle is on.
C13_HostToggleMovesAttachmentPointOnly ==
    [][EnableChanged =>
          /\ UNCHANGED <<prop_namespaces_, hosted_markers_, setVars>>
          /\ \A n \in GroupNodes : mParent'[n] = mParent[n]
          /\ mChildren'[marker_scene_node_] = mChildren[marker_scene_node_]
          /\ thrown' = "none"
          /\ (mParent'[marker_scene_node_] = parent_scene_node_) <=> enabled'
          /\ (marker_scene_node_ \in mChildren'[parent_scene_node_]) <=> enabled'
          /\ ~enabled' => mParent'[marker_scene_node_] = NullNode]_vars

\* C13 witness: the host was switched off while a set was hosted with one
\* grouping node attached and one namespace toggle off.
C13_Witness ==
    /\ last.op = "onEnableChanged"
    /\ ~enabled
    /\ mParent[marker_scene_node_] = NullNode
    /\ hosted_markers_ # <<>>
    /\ \E n \in GroupNodes : mParent[n] = marker_scene_node_
    /\ \E ns \in DOMAIN prop_namespaces_ : ~prop_namespaces_[ns]

C15_UnknownTypeSkipped ==
    [][(last'.op = "createMarkers" /\ crashed' = "no") =>
          LET all == 1 .. Len(markers_[1])
              unknown == {i \in all : ~KnownType(markers_[1][i].first.type)}
              pending == {i \in all \ unknown : ~HasHandle(markers_[1][i])}
          IN /\ \A i \in unknown : /\ markers_'[1][i].second = NullHandle
                                   /\ markers_'[1][i].made = 0
             /\ (last'.lookups > 0) <=> (pending # {})
             /\ thrown' = "none" =>
                   /\ last'.errors = Cardinality(unknown)
                   /\ \A i \in all \ unknown : HasHandle(markers_'[1][i])]_vars

\* C15 witness: createMarkers returned on a set whose first entry is of an
\* unknown type and whose second entry is of a known one: one error, the
\* first entry without a marker, the second with an aligned marker.
C15_Witness ==
    /\ last.op = "createMarkers"
    /\ thrown = "none"
    /\ crashed = "no"
    /\ Len(markers_[1]) = 2
    /\ ~KnownType(markers_[1][1].first.type)
    /\ ~HasHandle(markers_[1][1])
    /\ KnownType(markers_[1][2].first.type)
    /\ markers_[1][2].second.nAlign = 1
    /\ last.errors = 1

\* C16 as stated: every createMarkers call looks the transform up exactly
\* once.
C16_ExactlyOneLookupPerCall ==
    last.op = "createMarkers" => last.lookups = 1

\* C16: a createMarkers call looks the transform up at most once: once when
\* it gives a marker to at least one entry, not at all otherwise; when the
\* call returns, every marker it created was aligned once, all with one
\* transform value; the entries it gave no marker are left as they were.
C16_AtMostOneLookupPerCall ==
    [][(last'.op = "createMarkers" /\ crashed' = "no") =>
          LET all == 1 .. Len(markers_[1])
              new == {i \in all : ~HasHandle(markers_[1][i]) /\ HasHandle(markers_'[1][i])}
          IN /\ last'.lookups <= 1
             /\ (last'.lookups = 1) <=> (new # {})
             /\ thrown' = "none" =>
                   \E v \in TfValues : \A i \in new : /\ markers_'[1][i].second.tm = v
                                                      /\ markers_'[1][i].second.nAlign = 1
             /\ \A i \in all \ new : markers_'[1][i] = markers_[1][i]]_vars

\* C16 witness: one createMarkers call gave both entries of a set a marker
\* with a single lookup, and both carry the value looked up.
C16_Witness ==
    /\ last.op = "createMarkers"
    /\ last.lookups = 1
    /\ thrown = "none"
    /\ crashed = "no"
    /\ Len(markers_[1]) = 2
    /\ \A i \in 1 .. 2 : /\ markers_[1][i].second.tm = "tf2"
                         /\ markers_[1][i].second.nAlign = 1
                         /\ markers_[1][i].made = 1

C18_LifecycleForward ==
    [][/\ \A i \in 1 .. Len(markers_'[1]) :
             HasHandle(markers_'[1][i]) =>
                /\ markers_'[1][i].first.ns \in DOMAIN namespaces_'[1]
                /\ namespaces_'[1][markers_'[1][i].first.ns] # NullNode
                /\ markers_'[1][i].second.node = namespaces_'[1][markers_'[1][i].first.ns]
       /\ \A ns \in NS :
             mParent'[GroupNode(1, ns)] # NullNode =>
                /\ ns \in DOMAIN namespaces_'[1]
                /\ namespaces_'[1][ns] = GroupNode(1, ns)
       /\ (constructed[1] /\ constructed'[1]) =>
             /\ DOMAIN namespaces_'[1] = DOMAIN namespaces_[1]
             /\ \A ns \in DOMAIN namespaces_[1] :
                   namespaces_[1][ns] # NullNode => namespaces_'[1][ns] = namespaces_[1][ns]
             /\ Len(markers_'[1]) = Len(markers_[1])
             /\ \A i \in 1 .. Len(markers_[1]) :
                   HasHandle(markers_[1][i]) => markers_'[1][i] = markers_[1][i]]_vars

\* C18 witness: a living set at the end of the lifecycle: a namespace with a
\* grouping node, an rviz marker under it, and the node attached by the last
\* setVisible call.
C18_Witness ==
    /\ constructed[1]
    /\ crashed = "no"
    /\ thrown = "none"
    /\ last.op = "setVisible"
    /\ last.visible
    /\ \E i \in 1 .. Len(markers_[1]) :
          /\ HasHandle(markers_[1][i])
          /\ markers_[1][i].first.ns = last.ns
          /\ mParent[namespaces_[1][last.ns]] = last.parent

C20_AddMarkersNeverAttachesTwice ==
    last.op = "addMarkers" => thrown # "Ogre::Exception"

====
